---- MODULE Spec2Model ----
(***************************************************************************)
(* Model of the signifier registry (src/storage): the JSON document store, *)
(* the RDF graph files, the (artifact, property) inverted index, and the   *)
(* registry operations create / create_from_rdf / update / update_status / *)
(* delete with the readers get / get_rdf_representation / find_by_property.*)
(*                                                                         *)
(* Strings that the code takes apart (signifier ids inside file names and  *)
(* glob patterns) are sequences of one-character strings.                  *)
(***************************************************************************)
EXTENDS Integers, Sequences, FiniteSets, TLC

VARIABLES universe, docs, rdf, index, last, failed, nops, pc, obs,
          request, response, ranker, candidates, ranked, matchArgs, matched,
          sentenceTransformers, matcherRegistry, registryCall, registryOutcome,
          matchCalls, sseCall, sseResult

\* what the retrieval side holds: the request and response of the last retrieve,
\* a Ranker with the candidates given to rank and the list it returned, the
\* arguments of StringContainsMatcher.match and the list it returned
\* the matcher side: whether sentence_transformers can be imported, the
\* IntentMatcherRegistry, its last call with what the call returned or raised,
\* and the number of calls made
matcherVars ==
    <<sentenceTransformers, matcherRegistry, registryCall, registryOutcome, matchCalls>>
\* the arguments of a call of SSE.evaluate and the SSEResult it returned
sseVars == <<sseCall, sseResult>>
pipelineVars ==
    <<request, response, ranker, candidates, ranked, matchArgs, matched, matcherVars,
      sseVars>>
vars == <<universe, docs, rdf, index, last, failed, nops, pc, obs, pipelineVars>>
stores == <<docs, rdf, index>>

\* ------------------------------------------------------------------ bounds
\* Largest version number an input signifier carries or an update reaches.
MaxVersion == 2
\* Number of registry calls in one run.
MaxOps == 3

\* ------------------------------------------------------------ input domains
\* signifier ids: "a", "a_v2" (has "a" + "_v" as a textual prefix) and "[a]"
\* (a glob character class when spliced into a pattern)
IdA == <<"a">>
IdAv2 == <<"a", "_", "v", "2">>
IdBr == <<"[", "a", "]">>
IdB == <<"b">>
Ids == {IdA, IdAv2, IdBr, IdB}


\* (artifact_uri, property_uri) pairs
K1 == <<"art", "p1">>
K2 == <<"art", "p2">>
Keys == {K1, K2}

\* SignifierStatus
Statuses == {"active", "deprecated"}

\* Python's None and the raised exceptions, as records (so that they compare
\* with documents, graphs and signifiers)
NoDoc == [none |-> "document"]
NoRdf == [none |-> "rdf_data"]
NoGraph == [none |-> "graph"]
ParseError == [raised |-> "ParseError"]
RdfError == [raised |-> "RdfError"]
InvalidRDF == [raised |-> "InvalidRDF"]
\* no call in progress; nothing read yet
Idle == [at |-> "idle"]
NoObs == [none |-> "observation"]
\* no retrieve, rank or match call made yet
NoRequest == [none |-> "request"]
NoResponse == [none |-> "response"]
NoRanker == [none |-> "ranker"]
NotRanked == [none |-> "ranked"]
NoArgs == [none |-> "arguments"]
NotMatched == [none |-> "matched"]

\* ------------------------------------------------------- strings as sequences
Digits == <<"0", "1", "2", "3", "4", "5", "6", "7", "8", "9">>

\* str(n) for n >= 0
RECURSIVE Dec(_)
Dec(n) == IF n < 10 THEN <<Digits[n + 1]>> ELSE Dec(n \div 10) \o <<Digits[(n % 10) + 1]>>

Range(seq) == {seq[i] : i \in 1..Len(seq)}

\* the index of the "]" that closes the character class opened at pat[i] = "[",
\* or 0 when there is none (fnmatch: a "!" and then a "]" right after the "["
\* belong to the class)
ClassEnd(pat, i) ==
    LET j0 == IF i + 1 <= Len(pat) /\ pat[i + 1] = "!" THEN i + 2 ELSE i + 1
        j1 == IF j0 <= Len(pat) /\ pat[j0] = "]" THEN j0 + 1 ELSE j0
        closing == {j \in j1..Len(pat) : pat[j] = "]"}
    IN  IF closing = {} THEN 0 ELSE CHOOSE j \in closing : \A k \in closing : j <= k

\* fnmatch of a whole name against a pattern: "*" any run of characters, "?" any
\* one character, "[...]" one character of the class ("[!...]" one outside it),
\* a "[" that is never closed and every other character stand for themselves.
\* (Ranges "x-y" inside a class are not needed: no id here contains "-".)
RECURSIVE GlobMatch(_, _)
GlobMatch(pat, name) ==
    IF pat = <<>> THEN name = <<>>
    ELSE IF Head(pat) = "*"
        THEN GlobMatch(Tail(pat), name) \/ (name # <<>> /\ GlobMatch(pat, Tail(name)))
    ELSE IF name = <<>> THEN FALSE
    ELSE IF Head(pat) = "?" THEN GlobMatch(Tail(pat), Tail(name))
    ELSE IF Head(pat) = "[" /\ ClassEnd(pat, 1) # 0
        THEN LET e == ClassEnd(pat, 1)
                 neg == pat[2] = "!"
                 members == Range(SubSeq(pat, IF neg THEN 3 ELSE 2, e - 1))
             IN  /\ (Head(name) \in members) # neg
                 /\ GlobMatch(SubSeq(pat, e + 1, Len(pat)), Tail(name))
    ELSE Head(pat) = Head(name) /\ GlobMatch(Tail(pat), Tail(name))

\* ------------------------------------------------------------ storage layout
\* MemoryStore._get_rdf_path: rdf/<id>_v<version>.ttl
RdfPath(signifier_id, version) ==
    signifier_id \o <<"_", "v">> \o Dec(version) \o <<".", "t", "t", "l">>

\* the pattern delete_signifier hands to rdf_dir.glob
RdfGlobPattern(signifier_id) ==
    signifier_id \o <<"_", "v", "*", ".", "t", "t", "l">>

\* ------------------------------------------------------------------- inputs
\* A Signifier as the registry reads it (models/signifier.py): the value
\* conditions inside a StructuredCondition are not read by the registry, so a
\* condition is its (artifact, property_affordance) pair.
Signifier(id, v, st, intent, conds, shapes) ==
    [signifier_id |-> id, version |-> v, status |-> st, intent |-> intent,
     affordance_uri |-> "aff", structured_conditions |-> conds,
     shacl_shapes |-> shapes]

\* (intent, structured conditions, shapes) of the signifiers callers pass;
\* shacl_shapes is absent ("none"), Turtle that parses ("wellformed") or Turtle
\* that does not ("malformed")
Bodies ==
    { <<"i1", {K1}, "none">>, <<"i2", {K2}, "wellformed">>,
      <<"i1", {K1, K2}, "malformed">> }

\* the signifiers callers pass to create and update (a deprecated one comes
\* about through update_status)
SignifierInputs(U) ==
    { Signifier(id, v, "active", b[1], b[2], b[3]) :
        id \in U, v \in 1..MaxVersion, b \in Bodies }

\* RDF text handed to create_from_rdf or to create as rdf_data.  form:
\*   "standard"    Turtle with its @prefix lines, parses as it is
\*   "nonstandard" no @prefix lines, prefixed names and // comments: parses only
\*                 after RepresentationService._preprocess_rdf
\*   "garbage"     parses neither way
RdfForms == {"standard", "nonstandard", "garbage"}

RdfTexts(U) ==
    { [form |-> f, signifier_id |-> id, intent |-> "i1",
       structured_conditions |-> {K1}, has_shapes |-> FALSE] :
        f \in RdfForms, id \in U }

\* the rdf_data a caller passes to create along with signifier s: none, or
\* standard Turtle about the same id (create_from_rdf passes the other forms)
RdfDataFor(s) ==
    {NoRdf} \cup {t \in RdfTexts({s.signifier_id}) : t.form = "standard"}

\* ------------------------------------------------- RepresentationService
\* rdflib Graph().parse(data=text, format="turtle") on the text as given: the
\* graph, or ParseError
ParseTurtle(text) ==
    IF text.form = "standard"
    THEN [origin |-> "provided", signifier_id |-> text.signifier_id,
          intent |-> text.intent,
          shapes |-> IF text.has_shapes THEN "wellformed" ELSE "none"]
    ELSE ParseError

\* parse_rdf_signifier: preprocesses a text without "@prefix", parses it and
\* reads the signifier out of the graph: version 1, status active.
ParseRdfSignifier(text) ==
    IF text.form = "garbage" THEN InvalidRDF
    ELSE Signifier(text.signifier_id, 1, "active", text.intent,
                   text.structured_conditions,
                   IF text.has_shapes THEN "wellformed" ELSE "none")

\* generate_rdf: the graph built from the id, the affordance, the intent and
\* the shapes (neither version nor status nor the structured conditions go
\* into it); parsing malformed shapes raises.
GenerateRdf(s) ==
    IF s.shacl_shapes = "malformed" THEN RdfError
    ELSE [origin |-> "generated", signifier_id |-> s.signifier_id,
          intent |-> s.intent, shapes |-> s.shacl_shapes]

\* normalize_signifier: a placeholder that returns its argument
NormalizeSignifier(s) == s

\* --------------------------------------------------------------- MemoryStore
\* store_json_document: json/<id>.json is overwritten with the document
StoreJsonDocument(d, doc) == [d EXCEPT ![doc.signifier_id] = doc]

\* get_json_document
GetJsonDocument(d, id) == d[id]

\* Signifier.get_property_keys
GetPropertyKeys(s) == s.structured_conditions

\* update_property_index that adds the id under the keys new to the index only
UpdatePropertyIndexNewKeysOnly(idx, s) ==
    [k \in DOMAIN idx \cup GetPropertyKeys(s) |->
        IF k \in DOMAIN idx THEN idx[k] ELSE {s.signifier_id}]

\* update_property_index: adds the id under each of the signifier's keys
UpdatePropertyIndex(idx, s) ==
    [k \in DOMAIN idx \cup GetPropertyKeys(s) |->
        (IF k \in DOMAIN idx THEN idx[k] ELSE {})
            \cup (IF k \in GetPropertyKeys(s) THEN {s.signifier_id} ELSE {})]

\* store_rdf_graph, once the data has parsed: the file of (id, version) is
\* written, replacing what it held
StoreRdfGraph(r, id, version, graph) ==
    [p \in DOMAIN r \cup {RdfPath(id, version)} |->
        IF p = RdfPath(id, version) THEN graph ELSE r[p]]

\* get_rdf_graph: the graph in the file, or NoGraph when there is no file
GetRdfGraph(r, id, version) ==
    IF RdfPath(id, version) \in DOMAIN r THEN r[RdfPath(id, version)] ELSE NoGraph

\* MemoryStore.find_by_property
StoreFindByProperty(idx, k) == IF k \in DOMAIN idx THEN idx[k] ELSE {}

\* delete_signifier (version = None), the RDF files: every file the glob
\* <id>_v*.ttl matches is unlinked
DeleteRdfFiles(r, id) ==
    [p \in {q \in DOMAIN r : ~GlobMatch(RdfGlobPattern(id), q)} |-> r[p]]

\* delete_signifier, the index: the id is discarded from every entry and an
\* entry left empty is removed
DeleteFromIndex(idx, id) ==
    [k \in {j \in DOMAIN idx : idx[j] \ {id} # {}} |-> idx[k] \ {id}]

\* --------------------------------------------------------- SignifierRegistry
\* Signifier.to_json_doc: the nested document written to json/<id>.json
ToJsonDoc(s) ==
    [signifier_id |-> s.signifier_id, version |-> s.version, status |-> s.status,
     intent |-> [nl_text |-> s.intent],
     context |-> [structured_conditions |-> s.structured_conditions,
                  shacl_shapes |-> s.shacl_shapes],
     affordance_uri |-> s.affordance_uri]

\* Signifier(**doc) in SignifierRegistry.get
FromJsonDoc(d) ==
    Signifier(d.signifier_id, d.version, d.status, d.intent.nl_text,
              d.context.structured_conditions, d.context.shacl_shapes)

\* get: the current signifier, or NoDoc
Get(d, id) ==
    IF GetJsonDocument(d, id) = NoDoc THEN NoDoc
    ELSE FromJsonDoc(GetJsonDocument(d, id))

\* create without its check for an existing document
AlreadyExistsNeverChecked(d, id) == FALSE

\* create, lines 50-54: the id is taken
AlreadyExists(d, id) == GetJsonDocument(d, id) # NoDoc

\* update that counts up from the version of the signifier passed in
UpdateVersionFromArgument(existing_doc, s, create_new_version) ==
    IF create_new_version THEN s.version + 1 ELSE s.version

\* update, lines 137-141: the version the update stores
UpdateVersion(existing_doc, s, create_new_version) ==
    IF create_new_version THEN existing_doc.version + 1 ELSE s.version

\* update_status that asks update for a new version
StatusAlwaysNewVersion == TRUE

\* update_status, line 280: the flag it passes to update
StatusCreatesNewVersion == FALSE

\* get_rdf_representation(id): Turtle of the current version's graph, or NoGraph
GetRdfRepresentation(d, r, id) ==
    IF Get(d, id) = NoDoc THEN NoGraph
    ELSE GetRdfGraph(r, id, Get(d, id).version)

\* SignifierRegistry.find_by_property: the signifiers of the ids the index
\* lists, those that get() no longer finds left out
FindByProperty(d, idx, k) ==
    {Get(d, id) : id \in {i \in StoreFindByProperty(idx, k) : Get(d, i) # NoDoc}}

Outcome(d, r, idx, res) == [docs |-> d, rdf |-> r, index |-> idx, res |-> res]

\* create(signifier, rdf_data) run to its end or to the exception it raises
CreateOutcome(d, r, idx, s, rdf_data) ==
    IF AlreadyExists(d, s.signifier_id) THEN Outcome(d, r, idx, "AlreadyExists")
    ELSE
        LET normalized == NormalizeSignifier(s)
            d1 == StoreJsonDocument(d, ToJsonDoc(normalized))
            idx1 == UpdatePropertyIndex(idx, normalized)
        IN  IF rdf_data # NoRdf
            THEN \* a ValueError of store_rdf_graph is logged and dropped
                IF ParseTurtle(rdf_data) = ParseError
                THEN Outcome(d1, r, idx1, "ok")
                ELSE Outcome(d1, StoreRdfGraph(r, normalized.signifier_id,
                                 normalized.version, ParseTurtle(rdf_data)),
                             idx1, "ok")
            ELSE
                IF GenerateRdf(normalized) = RdfError
                THEN Outcome(d1, r, idx1, "RdfError")
                ELSE Outcome(d1, StoreRdfGraph(r, normalized.signifier_id,
                                 normalized.version, GenerateRdf(normalized)),
                             idx1, "ok")

\* create_from_rdf(rdf_data)
CreateFromRdfOutcome(d, r, idx, text) ==
    IF ParseRdfSignifier(text) = InvalidRDF THEN Outcome(d, r, idx, "InvalidRDF")
    ELSE CreateOutcome(d, r, idx, ParseRdfSignifier(text), text)

\* update(signifier, create_new_version)
UpdateOutcome(d, r, idx, s, create_new_version) ==
    IF GetJsonDocument(d, s.signifier_id) = NoDoc THEN Outcome(d, r, idx, "NotFound")
    ELSE
        LET existing_doc == GetJsonDocument(d, s.signifier_id)
            normalized == NormalizeSignifier(
                [s EXCEPT !.version = UpdateVersion(existing_doc, s, create_new_version)])
            d1 == StoreJsonDocument(d, ToJsonDoc(normalized))
            idx1 == UpdatePropertyIndex(idx, normalized)
        IN  IF GenerateRdf(normalized) = RdfError
            THEN Outcome(d1, r, idx1, "RdfError")
            ELSE Outcome(d1, StoreRdfGraph(r, normalized.signifier_id,
                             normalized.version, GenerateRdf(normalized)),
                         idx1, "ok")

\* update_status(id, status)
UpdateStatusOutcome(d, r, idx, id, st) ==
    IF Get(d, id) = NoDoc THEN Outcome(d, r, idx, "NotFound")
    ELSE UpdateOutcome(d, r, idx, [Get(d, id) EXCEPT !.status = st],
                       StatusCreatesNewVersion)

\* delete(id): MemoryStore.delete_signifier with version = None
DeleteOutcome(d, r, idx, id) ==
    Outcome([d EXCEPT ![id] = NoDoc], DeleteRdfFiles(r, id),
            DeleteFromIndex(idx, id), "ok")

\* ------------------------------------------------------------------ actions
\* The call that ran last: its name and arguments (version: the version field
\* of the signifier passed, 0 when the call takes none), the document the id
\* had when it was made, and how it ended.
Last(op, id, nv, v, before, res) ==
    [op |-> op, signifier_id |-> id, create_new_version |-> nv, version |-> v,
     before |-> before, res |-> res]

\* One call runs from start to end: the stores take the outcome's values.
Apply(o, op, id, nv, v) ==
    /\ nops < MaxOps
    /\ docs' = o.docs
    /\ rdf' = o.rdf
    /\ index' = o.index
    /\ last' = Last(op, id, nv, v, docs[id], o.res)
    /\ failed' = (failed \/ o.res # "ok")
    /\ nops' = nops + 1
    /\ UNCHANGED <<pipelineVars, universe, pc, obs>>

Create(s, rdf_data) ==
    Apply(CreateOutcome(docs, rdf, index, s, rdf_data), "create", s.signifier_id,
          FALSE, s.version)

CreateFromRdf(text) ==
    Apply(CreateFromRdfOutcome(docs, rdf, index, text), "create_from_rdf",
          text.signifier_id, FALSE, 0)

Update(s, create_new_version) ==
    /\ create_new_version /\ docs[s.signifier_id] # NoDoc
           => docs[s.signifier_id].version < MaxVersion
    /\ Apply(UpdateOutcome(docs, rdf, index, s, create_new_version), "update",
             s.signifier_id, create_new_version, s.version)

UpdateStatus(id, st) ==
    Apply(UpdateStatusOutcome(docs, rdf, index, id, st), "update_status", id, FALSE, 0)

Delete(id) ==
    Apply(DeleteOutcome(docs, rdf, index, id), "delete", id, FALSE, 0)

InitStores ==
    /\ docs = [id \in Ids |-> NoDoc]
    /\ rdf = <<>>
    /\ index = <<>>
    /\ last = Last("none", IdA, FALSE, 0, NoDoc, "ok")
    /\ failed = FALSE
    /\ nops = 0
    /\ pc = Idle
    /\ obs = NoObs

\* no retrieval, ranking or matching under way
\* no IntentMatcherRegistry built, none of its methods called
NoRegistry == [none |-> "registry"]
NoCall == [none |-> "call"]
NoOutcome == [none |-> "outcome"]
InitMatcherIdle ==
    /\ sentenceTransformers = FALSE
    /\ matcherRegistry = NoRegistry
    /\ registryCall = NoCall
    /\ registryOutcome = NoOutcome
    /\ matchCalls = 0

\* SSE.evaluate not called
NoResult == [none |-> "result"]
InitSseIdle == sseCall = NoCall /\ sseResult = NoResult

InitPipeline ==
    /\ InitMatcherIdle
    /\ InitSseIdle
    /\ request = NoRequest
    /\ response = NoResponse
    /\ ranker = NoRanker
    /\ candidates = <<>>
    /\ ranked = NotRanked
    /\ matchArgs = NoArgs
    /\ matched = NotMatched

\* the sets of ids one run of the registry works with
Universes == {{IdBr}, {IdA, IdAv2}}

Init == universe \in Universes /\ InitStores /\ InitPipeline

Next ==
    \/ \E s \in SignifierInputs(universe) :
          \E rdf_data \in RdfDataFor(s) : Create(s, rdf_data)
    \/ \E text \in RdfTexts(universe) : CreateFromRdf(text)
    \/ \E s \in SignifierInputs(universe), nv \in BOOLEAN : Update(s, nv)
    \/ \E id \in universe, st \in Statuses : UpdateStatus(id, st)
    \/ \E id \in universe : Delete(id)

Spec == Init /\ [][Next]_vars

\* -------------------------------------------------- calls taken step by step
\* The registry takes no lock: a thread that reads runs between any two
\* statements of a thread that writes.  One writer runs create, update,
\* update_status or delete statement by statement (pc: where it is); one
\* reader calls get and find_by_property in between.
InFlight(op, at, s, rdf_data, nv, before) ==
    [op |-> op, at |-> at, signifier |-> s, rdf_data |-> rdf_data,
     create_new_version |-> nv, before |-> before]

Finish(op, id, nv, v, before, res) ==
    /\ pc' = Idle
    /\ last' = Last(op, id, nv, v, before, res)
    /\ failed' = (failed \/ res # "ok")

\* create, lines 50-56: the check for an existing document
BeginCreate(s, rdf_data) ==
    /\ pc = Idle /\ nops < MaxOps
    /\ nops' = nops + 1
    /\ IF AlreadyExists(docs, s.signifier_id)
       THEN Finish("create", s.signifier_id, FALSE, s.version,
                   docs[s.signifier_id], "AlreadyExists")
       ELSE /\ pc' = InFlight("create", "store_json", NormalizeSignifier(s),
                              rdf_data, FALSE, docs[s.signifier_id])
            /\ UNCHANGED <<last, failed>>
    /\ UNCHANGED <<pipelineVars, universe, docs, rdf, index, obs>>

\* update, lines 131-143: the check for the document and the version to store
BeginUpdate(s, create_new_version) ==
    /\ pc = Idle /\ nops < MaxOps
    /\ create_new_version /\ docs[s.signifier_id] # NoDoc
           => docs[s.signifier_id].version < MaxVersion
    /\ nops' = nops + 1
    /\ IF GetJsonDocument(docs, s.signifier_id) = NoDoc
       THEN Finish("update", s.signifier_id, create_new_version, s.version,
                   NoDoc, "NotFound")
       ELSE /\ pc' = InFlight("update", "store_json",
                       NormalizeSignifier([s EXCEPT !.version =
                           UpdateVersion(GetJsonDocument(docs, s.signifier_id), s,
                                         create_new_version)]),
                       NoRdf, create_new_version, docs[s.signifier_id])
            /\ UNCHANGED <<last, failed>>
    /\ UNCHANGED <<pipelineVars, universe, docs, rdf, index, obs>>

\* update_status, lines 275-280: get, set the status, then update
BeginUpdateStatus(id, st) ==
    /\ pc = Idle /\ nops < MaxOps
    /\ nops' = nops + 1
    /\ IF Get(docs, id) = NoDoc
       THEN Finish("update_status", id, FALSE, 0, NoDoc, "NotFound")
       ELSE /\ pc' = InFlight("update_status", "store_json",
                       NormalizeSignifier([Get(docs, id) EXCEPT
                           !.status = st,
                           !.version = UpdateVersion(GetJsonDocument(docs, id),
                                           Get(docs, id), StatusCreatesNewVersion)]),
                       NoRdf, FALSE, docs[id])
            /\ UNCHANGED <<last, failed>>
    /\ UNCHANGED <<pipelineVars, universe, docs, rdf, index, obs>>

\* create line 58, update line 145: store_json_document
StepStoreJson ==
    /\ pc # Idle /\ pc.at = "store_json"
    /\ docs' = StoreJsonDocument(docs, ToJsonDoc(pc.signifier))
    /\ pc' = [pc EXCEPT !.at = "update_index"]
    /\ UNCHANGED <<pipelineVars, universe, rdf, index, last, failed, nops, obs>>

\* create line 60, update line 147: update_property_index
StepUpdateIndex ==
    /\ pc # Idle /\ pc.at = "update_index"
    /\ index' = UpdatePropertyIndex(index, pc.signifier)
    /\ pc' = [pc EXCEPT !.at = "store_rdf"]
    /\ UNCHANGED <<pipelineVars, universe, docs, rdf, last, failed, nops, obs>>

\* create lines 62-75, update lines 149-154: the RDF graph is stored, or
\* generate_rdf raises
StepStoreRdf ==
    /\ pc # Idle /\ pc.at = "store_rdf"
    /\ LET s == pc.signifier
           graph == IF pc.rdf_data # NoRdf THEN ParseTurtle(pc.rdf_data)
                    ELSE GenerateRdf(s)
       IN  /\ rdf' = IF graph \in {ParseError, RdfError} THEN rdf
                     ELSE StoreRdfGraph(rdf, s.signifier_id, s.version, graph)
           /\ Finish(pc.op, s.signifier_id, pc.create_new_version,
                     IF pc.op = "update_status" THEN 0 ELSE s.version, pc.before,
                     IF graph = RdfError THEN "RdfError" ELSE "ok")
    /\ UNCHANGED <<pipelineVars, universe, docs, index, nops, obs>>

\* delete_signifier lines 296-298: the RDF files are unlinked
BeginDelete(id) ==
    /\ pc = Idle /\ nops < MaxOps
    /\ nops' = nops + 1
    /\ rdf' = DeleteRdfFiles(rdf, id)
    /\ pc' = InFlight("delete", "unlink_json", Signifier(id, 0, "active", "i1", {}, "none"),
                      NoRdf, FALSE, docs[id])
    /\ UNCHANGED <<pipelineVars, universe, docs, index, last, failed, obs>>

\* delete_signifier lines 300-303: the JSON document is unlinked
StepUnlinkJson ==
    /\ pc # Idle /\ pc.at = "unlink_json"
    /\ docs' = [docs EXCEPT ![pc.signifier.signifier_id] = NoDoc]
    /\ pc' = [pc EXCEPT !.at = "prune_index"]
    /\ UNCHANGED <<pipelineVars, universe, rdf, index, last, failed, nops, obs>>

\* delete_signifier lines 305-309: the id leaves the index
StepPruneIndex ==
    /\ pc # Idle /\ pc.at = "prune_index"
    /\ index' = DeleteFromIndex(index, pc.signifier.signifier_id)
    /\ Finish("delete", pc.signifier.signifier_id, FALSE, 0, pc.before, "ok")
    /\ UNCHANGED <<pipelineVars, universe, docs, rdf, nops, obs>>

\* a reading thread: get(id), then find_by_property(k), with no statement of
\* the writer in between
Observe(id, k) ==
    /\ obs' = [signifier_id |-> id, key |-> k, doc |-> Get(docs, id),
               found |-> {s.signifier_id : s \in FindByProperty(docs, index, k)}]
    /\ UNCHANGED <<pipelineVars, universe, docs, rdf, index, last, failed, nops, pc>>

InitConc == universe = {IdA} /\ InitStores /\ InitPipeline

NextConc ==
    \/ \E s \in SignifierInputs(universe) :
          \E rdf_data \in RdfDataFor(s) : BeginCreate(s, rdf_data)
    \/ \E s \in SignifierInputs(universe), nv \in BOOLEAN : BeginUpdate(s, nv)
    \/ \E id \in universe, st \in Statuses : BeginUpdateStatus(id, st)
    \/ \E id \in universe : BeginDelete(id)
    \/ StepStoreJson
    \/ StepUpdateIndex
    \/ StepStoreRdf
    \/ StepUnlinkJson
    \/ StepPruneIndex
    \/ \E id \in universe, k \in Keys : Observe(id, k)

SpecConc == InitConc /\ [][NextConc]_vars

\* ------------------------------------------------------------ rational numbers
\* Similarities and scores are fractions num/den with den > 0, compared by
\* cross-multiplication (the code holds them as floats).
Rat(n, d) == IF d < 0 THEN [num |-> -n, den |-> -d] ELSE [num |-> n, den |-> d]
RatZero == Rat(0, 1)
RatOne == Rat(1, 1)
RatLess(a, b) == a.num * b.den < b.num * a.den
RatEq(a, b) == a.num * b.den = b.num * a.den
RatAdd(a, b) == Rat(a.num * b.den + b.num * a.den, a.den * b.den)
RatMin(a, b) == IF RatLess(b, a) THEN b ELSE a

\* list.sort(key=..., reverse=True), keys[i] being the key of seq[i]: descending
\* by key, elements with equal keys in the order they had (the sort is stable)
SortedDescending(seq, keys) ==
    LET n == Len(seq)
        Before(j, i) ==
            \/ RatLess(keys[i], keys[j])
            \/ RatEq(keys[j], keys[i]) /\ j < i
        Pos(i) == 1 + Cardinality({j \in 1..n : Before(j, i)})
    IN  [p \in 1..n |-> seq[CHOOSE i \in 1..n : Pos(i) = p]]

\* seq[:k] of Python: the first k elements, all but the last -k when k < 0
SliceTo(seq, k) ==
    IF k >= 0 THEN SubSeq(seq, 1, IF k < Len(seq) THEN k ELSE Len(seq))
    ELSE SubSeq(seq, 1, IF Len(seq) + k > 0 THEN Len(seq) + k ELSE 0)

\* ------------------------------------------------- StringContainsMatcher (v0)
\* A text is the sequence of its words (what re.findall(r'\b\w+\b') yields).
\* "on" has two characters; "Lamp" and "lamp" differ in case only.
Vocabulary == {"turn", "Lamp", "on"}
ShortWords == {"on"}
Lower(w) == IF w = "Lamp" THEN "lamp" ELSE w

\* longest query, longest list of signifiers and largest k given to match
MaxQueryLen == 3
MaxSignifiers == 2
MaxK == 2

ValueError == [raised |-> "ValueError"]

\* _tokenize: lower-cased unless case_sensitive, words of up to two characters
\* dropped
Tokenize(text, case_sensitive) ==
    SelectSeq([i \in 1..Len(text) |->
                  IF case_sensitive THEN text[i] ELSE Lower(text[i])],
              LAMBDA w : w \notin ShortWords)

\* the token set of a signifier dictionary: intent.nl_text and str() of
\* intent.structured
SignifierTokens(signifier, case_sensitive) ==
    Range(Tokenize(signifier.intent.nl_text, case_sensitive))
        \cup Range(Tokenize(signifier.intent.structured, case_sensitive))

\* _get_matched_tokens
GetMatchedTokens(query_tokens, signifier, case_sensitive) ==
    SelectSeq(query_tokens,
              LAMBDA t : t \in SignifierTokens(signifier, case_sensitive))

\* _compute_similarity with its count taken over the distinct query tokens
ComputeSimilarityDistinct(query_tokens, signifier, case_sensitive) ==
    LET all_signifier_tokens == SignifierTokens(signifier, case_sensitive)
    IN  IF all_signifier_tokens = {} \/ query_tokens = <<>> THEN RatZero
        ELSE Rat(Cardinality(Range(query_tokens) \cap all_signifier_tokens),
                 Len(query_tokens))

\* _compute_similarity
ComputeSimilarity(query_tokens, signifier, case_sensitive) ==
    LET all_signifier_tokens == SignifierTokens(signifier, case_sensitive)
        matches == Cardinality({i \in 1..Len(query_tokens) :
                                   query_tokens[i] \in all_signifier_tokens})
    IN  IF all_signifier_tokens = {} THEN RatZero
        ELSE IF query_tokens # <<>> THEN Rat(matches, Len(query_tokens))
        ELSE RatZero

MatchResult(signifier_id, similarity, matched_tokens) ==
    [signifier_id |-> signifier_id, similarity |-> similarity,
     matched_tokens |-> matched_tokens]

\* what a call returned, as a record (so that it compares with an exception)
Returned(results) == [results |-> results]
HasReturned(outcome) == "results" \in DOMAIN outcome

\* StringContainsMatcher.match
Match(intent_query, signifiers, k, case_sensitive) ==
    IF intent_query = <<>> THEN ValueError
    ELSE IF signifiers = <<>> THEN Returned(<<>>)
    ELSE
        LET query_tokens == Tokenize(intent_query, case_sensitive)
            scored == [i \in 1..Len(signifiers) |->
                MatchResult(signifiers[i].signifier_id,
                    ComputeSimilarity(query_tokens, signifiers[i], case_sensitive),
                    GetMatchedTokens(query_tokens, signifiers[i], case_sensitive))]
            results == SelectSeq(scored, LAMBDA r : RatLess(RatZero, r.similarity))
        IN  Returned(SliceTo(
                SortedDescending(results,
                    [i \in 1..Len(results) |-> results[i].similarity]), k))

\* the texts: every sequence of up to n words
Texts(n) == UNION {[1..m -> Vocabulary] : m \in 0..n}

\* the nl_text of the signifiers given to match
SignifierTexts == {<<"turn", "on", "Lamp">>, <<"turn">>, <<"on">>}

SignifierDict(id, nl_text, structured) ==
    [signifier_id |-> id, intent |-> [nl_text |-> nl_text, structured |-> structured]]

\* lists of up to n signifier dictionaries "s1", "s2", ..., in any order
SignifierLists(n) ==
    UNION {{[i \in 1..m |-> SignifierDict(<<"s">> \o Dec(o[i]), t[i], <<>>)] :
              t \in [1..m -> SignifierTexts],
              o \in {f \in [1..m -> 1..m] : \A a, b \in 1..m : f[a] = f[b] => a = b}} :
           m \in 0..n}

MatchArgs(intent_query, signifiers, k, case_sensitive) ==
    [intent_query |-> intent_query, signifiers |-> signifiers, k |-> k,
     case_sensitive |-> case_sensitive]

InitMatch ==
    /\ universe = {IdA} /\ InitStores
    /\ request = NoRequest /\ response = NoResponse
    /\ ranker = NoRanker /\ candidates = <<>> /\ ranked = NotRanked
    /\ matchArgs \in {MatchArgs(q, sl, k, cs) :
                        q \in Texts(MaxQueryLen), sl \in SignifierLists(MaxSignifiers),
                        k \in 0..MaxK, cs \in BOOLEAN}
    /\ matched = NotMatched
    /\ InitMatcherIdle /\ InitSseIdle

\* one call of match on the arguments drawn
MatchCall ==
    /\ matched = NotMatched
    /\ matched' = Match(matchArgs.intent_query, matchArgs.signifiers, matchArgs.k,
                        matchArgs.case_sensitive)
    /\ UNCHANGED <<universe, docs, rdf, index, last, failed, nops, pc, obs,
                   request, response, ranker, candidates, ranked, matchArgs,
                   matcherVars, sseVars>>

NextMatch == MatchCall

SpecMatch == InitMatch /\ [][NextMatch]_vars

\* --------------------------------------------------------------------- Ranker
\* Weights are in tenths (7 is 0.7): a weighted score is a ratio of weights, so
\* the unit cancels.  A weights dictionary may leave keys out.
DefaultIntentWeight == 7
DefaultShaclWeight == 2
DefaultSseWeight == 1
DefaultWeights ==
    [intent_similarity |-> DefaultIntentWeight, shacl |-> DefaultShaclWeight,
     sse |-> DefaultSseWeight]

\* specificity_boost = 0.01, in hundredths
SpecificityBoostHundredths == 1
SpecificityBoost == Rat(SpecificityBoostHundredths, 100)

\* largest constraint_count of a candidate
MaxConstraintCount == 2

\* Ranker.__init__: weights or the defaults (None and {} are both falsy)
NewRanker(weights, enable_shacl_gate, enable_sse_gate) ==
    [weights |-> IF DOMAIN weights = {} THEN DefaultWeights ELSE weights,
     enable_shacl_gate |-> enable_shacl_gate,
     enable_sse_gate |-> enable_sse_gate,
     specificity_boost |-> SpecificityBoost]

\* self.weights.get(key, default)
WeightGet(weights, key, default) ==
    IF key \in DOMAIN weights THEN weights[key] ELSE default

RankingSignal(name, value, weight, is_gate) ==
    [name |-> name, value |-> value, weight |-> weight, is_gate |-> is_gate]

\* rank, lines 138-186: the signals of one candidate, in the order appended
Signals(rk, candidate) ==
    <<RankingSignal("intent_similarity", candidate.intent_similarity,
          WeightGet(rk.weights, "intent_similarity", DefaultIntentWeight), FALSE)>>
    \o (IF candidate.shacl_has_shapes
        THEN <<RankingSignal("shacl_conforms",
                   IF candidate.shacl_conforms THEN RatOne ELSE RatZero,
                   WeightGet(rk.weights, "shacl", DefaultShaclWeight),
                   rk.enable_shacl_gate)>>
        ELSE <<>>)
    \o (IF candidate.has_sse_pass
        THEN <<RankingSignal("sse_pass",
                   IF candidate.sse_pass THEN RatOne ELSE RatZero,
                   WeightGet(rk.weights, "sse", DefaultSseWeight),
                   rk.enable_sse_gate)>>
        ELSE <<>>)

\* rank, lines 150-186: no enabled gate failed
PassedGates(rk, candidate) ==
    /\ ~(candidate.shacl_has_shapes /\ ~candidate.shacl_conforms /\ rk.enable_shacl_gate)
    /\ ~(candidate.has_sse_pass /\ ~candidate.sse_pass /\ rk.enable_sse_gate)

\* the loop of _calculate_weighted_score from signal i on: (weighted_sum,
\* total_weight), gates skipped, a boolean counted as 1.0 or 0.0
RECURSIVE AccumulateSignals(_, _, _, _)
AccumulateSignals(signals, i, weighted_sum, total_weight) ==
    IF i > Len(signals) THEN <<weighted_sum, total_weight>>
    ELSE IF signals[i].is_gate
        THEN AccumulateSignals(signals, i + 1, weighted_sum, total_weight)
    ELSE AccumulateSignals(signals, i + 1,
             RatAdd(weighted_sum,
                    Rat(signals[i].value.num * signals[i].weight, signals[i].value.den)),
             total_weight + signals[i].weight)

\* _calculate_weighted_score that counts the gate signals as well
CalculateWeightedScoreWithGates(signals) ==
    LET acc == AccumulateSignals([i \in 1..Len(signals) |->
                                     [signals[i] EXCEPT !.is_gate = FALSE]],
                                 1, RatZero, 0)
    IN  IF acc[2] = 0 THEN RatZero ELSE Rat(acc[1].num, acc[1].den * acc[2])

\* _calculate_weighted_score
CalculateWeightedScore(signals) ==
    LET acc == AccumulateSignals(signals, 1, RatZero, 0)
    IN  IF acc[2] = 0 THEN RatZero ELSE Rat(acc[1].num, acc[1].den * acc[2])

\* rank, lines 188-198, with the boost applied to failed candidates as well
FinalScoreIgnoringGates(rk, candidate) ==
    LET score == CalculateWeightedScore(Signals(rk, candidate))
    IN  IF candidate.constraint_count > 0
        THEN RatMin(RatOne, RatAdd(score,
                 Rat(candidate.constraint_count * rk.specificity_boost.num,
                     rk.specificity_boost.den)))
        ELSE score

\* rank, lines 188-198: 0.0 when a gate failed, else the weighted score plus
\* the specificity boost, capped at 1.0
FinalScore(rk, candidate) ==
    IF PassedGates(rk, candidate)
    THEN LET score == CalculateWeightedScore(Signals(rk, candidate))
         IN  IF candidate.constraint_count > 0
             THEN RatMin(RatOne, RatAdd(score,
                      Rat(candidate.constraint_count * rk.specificity_boost.num,
                          rk.specificity_boost.den)))
             ELSE score
    ELSE RatZero

RankedResult(rk, candidate) ==
    [signifier_id |-> candidate.signifier_id,
     final_score |-> FinalScore(rk, candidate),
     signals |-> Signals(rk, candidate),
     passed_gates |-> PassedGates(rk, candidate),
     metadata |-> [constraint_count |-> candidate.constraint_count,
                   shacl_has_shapes |-> candidate.shacl_has_shapes]]

\* Ranker.rank
Rank(rk, cands) ==
    SortedDescending([i \in 1..Len(cands) |-> RankedResult(rk, cands[i])],
                     [i \in 1..Len(cands) |-> FinalScore(rk, cands[i])])

\* the intent_similarity of the candidates given to rank
Similarities == {RatZero, Rat(1, 2), RatOne}

\* the candidate dictionaries with a given id.  has_sse_pass: the key "sse_pass"
\* is in the dictionary (without it sse_pass is read as True); a candidate
\* without shapes conforms and counts no constraint.
CandidatesOf(id) ==
    { c \in [signifier_id : {id}, intent_similarity : Similarities,
              shacl_has_shapes : BOOLEAN, shacl_conforms : BOOLEAN,
              has_sse_pass : BOOLEAN, sse_pass : BOOLEAN,
              constraint_count : 0..MaxConstraintCount] :
        /\ ~c.shacl_has_shapes => (c.shacl_conforms /\ c.constraint_count = 0)
        /\ ~c.has_sse_pass => c.sse_pass }

\* the lists given to rank: one candidate, or "a" and "b" in either order
CandidateLists ==
    {<<c>> : c \in CandidatesOf(IdA)}
    \cup {<<x, y>> : x \in CandidatesOf(IdA), y \in CandidatesOf(IdB)}
    \cup {<<y, x>> : x \in CandidatesOf(IdA), y \in CandidatesOf(IdB)}

\* the weights a request overrides the defaults with: none, intent similarity
\* alone, the SHACL signal alone, and a negative weight on the SSE signal
WeightOverrides ==
    { <<>>, [intent_similarity |-> 10, shacl |-> 0, sse |-> 0],
      [intent_similarity |-> 0, shacl |-> 10, sse |-> 0],
      [intent_similarity |-> 10, sse |-> -5] }

Rankers ==
    { NewRanker(w, sg, eg) : w \in WeightOverrides, sg \in BOOLEAN, eg \in BOOLEAN }

InitRank ==
    /\ universe = {IdA} /\ InitStores
    /\ request = NoRequest /\ response = NoResponse
    /\ matchArgs = NoArgs /\ matched = NotMatched
    /\ ranker \in Rankers
    /\ candidates \in CandidateLists
    /\ ranked = NotRanked
    /\ InitMatcherIdle /\ InitSseIdle

\* one call of rank on the candidates drawn
RankCall ==
    /\ ranked = NotRanked
    /\ ranked' = Returned(Rank(ranker, candidates))
    /\ UNCHANGED <<universe, docs, rdf, index, last, failed, nops, pc, obs,
                   request, response, ranker, candidates, matchArgs, matched,
                   matcherVars, sseVars>>

NextRank == RankCall

SpecRank == InitRank /\ [][NextRank]_vars

\* ------------------------------------------------------- RetrievalOrchestrator
\* the words of intent.nl_text of the signifiers the registry holds
NlText(intent) == IF intent = "i1" THEN <<"turn", "on", "Lamp">> ELSE <<"turn">>

\* Signifier.model_dump(), the part the matcher reads (intent.structured is None)
ModelDump(s) == SignifierDict(s.signifier_id, NlText(s.intent), <<>>)

\* the ids list_all_signifiers can return: the stems of json/*.json in every
\* order the directory scan may yield them
RECURSIVE Orderings(_)
Orderings(S) ==
    IF S = {} THEN {<<>>}
    ELSE UNION {{<<x>> \o t : t \in Orderings(S \ {x})} : x \in S}

ListAllSignifiers(d) == Orderings({id \in DOMAIN d : d[id] # NoDoc})

NoStatus == [none |-> "status"]

\* SignifierRegistry.list_signifiers(status, limit) over the ids in the order
\* all_ids; no candidate list of the model reaches limit = 10000
ListSignifiers(d, all_ids, status) ==
    LET found == SelectSeq(all_ids, LAMBDA id : Get(d, id) # NoDoc)
        signifiers == [i \in 1..Len(found) |-> Get(d, found[i])]
    IN  SelectSeq(signifiers, LAMBDA s : status = NoStatus \/ s.status = status)

\* RetrievalRequest.  context_input: features is the dictionary passed, nested
\* or flat, a value being "satisfies" or "violates" according to whether it meets
\* the value conditions signifiers put on its (artifact, property) pair;
\* conforms: whether the context graph built from it conforms to the shapes
\* text that parses.
RetrievalRequest(intent_query, context_input, pipeline, k, ranking_weights, enable_sse) ==
    [intent_query |-> intent_query, context_input |-> context_input,
     pipeline |-> pipeline, matcher_version |-> "v0", k |-> k,
     ranking_weights |-> ranking_weights, enable_sse |-> enable_sse]

\* the nested form {artifact_uri: {property_uri: value}} of a context
KvDict(features) ==
    [a \in {k[1] : k \in DOMAIN features} |->
        [p \in {k[2] : k \in {x \in DOMAIN features : x[1] = a}} |-> features[<<a, p>>]]]

\* the flat form {"artifact_uri::property_uri": value} of a context
FlatKey(k) == k[1] \o "::" \o k[2]
FlatDict(features) ==
    [key \in {FlatKey(k) : k \in DOMAIN features} |->
        features[CHOOSE k \in DOMAIN features : FlatKey(k) = key]]

\* the contexts callers pass: none, one that meets the conditions on K1, one
\* that violates them and meets those on K2, each in both forms
ContextFeatures == {<<>>, (K1 :> "satisfies"), (K1 :> "violates" @@ K2 :> "satisfies")}
ContextInputs ==
    { [features |-> KvDict(f), conforms |-> f # <<>>] : f \in ContextFeatures }
      \cup { [features |-> FlatDict(f), conforms |-> f # <<>>] : f \in ContextFeatures }

\* "::" in key, and key.split("::", 1)
HasSeparator(key) == \E k \in Keys : FlatKey(k) = key
SplitKey(key) == CHOOSE k \in Keys : FlatKey(k) = key

\* build_from_kv: the (artifact, property) -> value features put in the graph
BuildFromKv(context_features) ==
    LET pairs == UNION {{<<a, p>> : p \in DOMAIN context_features[a]} :
                          a \in DOMAIN context_features}
    IN  [k \in pairs |-> context_features[k[1]][k[2]]]

\* build_from_flat_dict: keys without "::" are skipped
BuildFromFlatDict(context_snapshot) ==
    LET keys == {key \in DOMAIN context_snapshot : HasSeparator(key)}
    IN  BuildFromKv(KvDict([k \in {SplitKey(key) : key \in keys} |->
                               context_snapshot[FlatKey(k)]]))

\* normalize_context of a dictionary
NormalizeContext(context_input) ==
    IF \E key \in DOMAIN context_input : HasSeparator(key)
    THEN BuildFromFlatDict(context_input)
    ELSE BuildFromKv(context_input)

DefaultPipeline == <<"IM", "SSE", "SV", "RP">>

RetrievalRequests ==
    { RetrievalRequest(q, c, DefaultPipeline, k, <<>>, TRUE) :
        q \in {<<"turn">>, <<"Lamp">>}, c \in ContextInputs, k \in {1, MaxK} }

\* _execute_intent_matching, lines 225-233: every signifier listed (no status
\* is passed) is dumped and matched with the v0 matcher
SignifierDicts(all_signifiers) ==
    [i \in 1..Len(all_signifiers) |-> ModelDump(all_signifiers[i])]
MatchResults(d, all_ids, req) ==
    Match(req.intent_query, SignifierDicts(ListSignifiers(d, all_ids, NoStatus)),
          req.k, FALSE)

\* _execute_intent_matching, lines 235-245: a match whose id get() finds in the
\* registry as it is now becomes a candidate
ImCandidates(d, match_results) ==
    LET found == SelectSeq(match_results, LAMBDA m : Get(d, m.signifier_id) # NoDoc)
    IN  [i \in 1..Len(found) |->
            [signifier_id |-> found[i].signifier_id,
             intent_similarity |-> found[i].similarity,
             signifier |-> Get(d, found[i].signifier_id)]]

\* _execute_intent_matching
ExecuteIntentMatching(d, all_ids, req) ==
    LET match_results == MatchResults(d, all_ids, req)
    IN  IF match_results = ValueError THEN ValueError
        ELSE Returned(ImCandidates(d, match_results.results))

\* dict.get(key, {})
DictGet(dict, key) == IF key \in DOMAIN dict THEN dict[key] ELSE <<>>

SSEResult(sse_pass, violations, conditions_checked, missing_properties) ==
    [sse_pass |-> sse_pass, violations |-> violations,
     conditions_checked |-> conditions_checked,
     missing_properties |-> missing_properties]

\* SSE.evaluate that takes a missing property for a violation under any policy
EvaluateMissingAlwaysFails(missing_value_policy, structured_conditions, context_features) ==
    IF structured_conditions = {} THEN SSEResult(TRUE, {}, 0, {})
    ELSE
        LET missing_properties ==
                {c \in structured_conditions :
                    c[2] \notin DOMAIN DictGet(context_features, c[1])}
            present == structured_conditions \ missing_properties
            violations ==
                missing_properties
                    \cup {c \in present : context_features[c[1]][c[2]] # "satisfies"}
        IN  SSEResult(violations = {}, violations, Cardinality(present),
                      missing_properties)

\* SSE.evaluate, each condition carrying one value condition: a missing property
\* is a violation under the policy "fail" only, a present one when its value
\* does not meet the value condition
Evaluate(missing_value_policy, structured_conditions, context_features) ==
    IF structured_conditions = {} THEN SSEResult(TRUE, {}, 0, {})
    ELSE
        LET missing_properties ==
                {c \in structured_conditions :
                    c[2] \notin DOMAIN DictGet(context_features, c[1])}
            present == structured_conditions \ missing_properties
            violations ==
                (IF missing_value_policy = "fail" THEN missing_properties ELSE {})
                    \cup {c \in present : context_features[c[1]][c[2]] # "satisfies"}
        IN  SSEResult(violations = {}, violations, Cardinality(present),
                      missing_properties)

\* the SSE of the orchestrator, SSE(missing_value_policy="fail")
SseEvaluate(structured_conditions, context_features) ==
    Evaluate("fail", structured_conditions, context_features).sse_pass

\* one candidate annotated by _execute_sse
SseAnnotated(req, candidate) ==
    [signifier_id |-> candidate.signifier_id,
     intent_similarity |-> candidate.intent_similarity,
     signifier |-> candidate.signifier,
     sse_pass |-> IF candidate.signifier.structured_conditions = {} THEN TRUE
                  ELSE SseEvaluate(candidate.signifier.structured_conditions,
                                   req.context_input.features)]

\* _execute_sse that keeps the passing candidates only
ExecuteSseDroppingFailed(req, cands) ==
    SelectSeq([i \in 1..Len(cands) |-> SseAnnotated(req, cands[i])],
              LAMBDA c : c.sse_pass)

\* _execute_sse
ExecuteSse(req, cands) == [i \in 1..Len(cands) |-> SseAnnotated(req, cands[i])]

\* SHACLValidator.validate_signifier_context: parse_shapes raises ValueError on
\* a text that does not parse, else pyshacl's verdict on the context graph
ValidateSignifierContext(context_input, shacl_shapes) ==
    IF shacl_shapes = "malformed" THEN ValueError
    ELSE [conforms |-> context_input.conforms]

\* shacl_shapes.count("sh:property") + shacl_shapes.count("sh:class") of the
\* shapes text that parses
ConstraintCount(shacl_shapes) == IF shacl_shapes = "wellformed" THEN 1 ELSE 0

\* _execute_shacl_validation of one candidate that validates the context also
\* for a signifier without shapes
ShaclAnnotatedAlwaysValidating(req, candidate) ==
    LET shapes == candidate.signifier.shacl_shapes
        has_shapes == shapes # "none"
        validation == ValidateSignifierContext(req.context_input, shapes)
    IN  IF validation = ValueError THEN ValueError
        ELSE [signifier_id |-> candidate.signifier_id,
              intent_similarity |-> candidate.intent_similarity,
              has_sse_pass |-> "sse_pass" \in DOMAIN candidate,
              sse_pass |-> IF "sse_pass" \in DOMAIN candidate
                           THEN candidate.sse_pass ELSE TRUE,
              shacl_conforms |-> validation.conforms,
              shacl_has_shapes |-> TRUE,
              constraint_count |-> IF has_shapes THEN ConstraintCount(shapes) ELSE 0]

\* one candidate annotated by _execute_shacl_validation, or the exception
\* validate_signifier_context raises
ShaclAnnotated(req, candidate) ==
    LET shapes == candidate.signifier.shacl_shapes
        has_shapes == shapes # "none"
        validation == IF has_shapes
                      THEN ValidateSignifierContext(req.context_input, shapes)
                      ELSE [conforms |-> TRUE]
    IN  IF validation = ValueError THEN ValueError
        ELSE [signifier_id |-> candidate.signifier_id,
              intent_similarity |-> candidate.intent_similarity,
              has_sse_pass |-> "sse_pass" \in DOMAIN candidate,
              sse_pass |-> IF "sse_pass" \in DOMAIN candidate
                           THEN candidate.sse_pass ELSE TRUE,
              shacl_conforms |-> validation.conforms,
              shacl_has_shapes |-> has_shapes,
              constraint_count |-> IF has_shapes THEN ConstraintCount(shapes) ELSE 0]

\* _execute_shacl_validation: the loop over the candidates; an exception in it
\* is not caught
ExecuteShaclValidation(req, cands) ==
    IF \E i \in 1..Len(cands) : ShaclAnnotated(req, cands[i]) = ValueError
    THEN ValueError
    ELSE Returned([i \in 1..Len(cands) |-> ShaclAnnotated(req, cands[i])])

\* candidate.get(key, default)
CandidateGet(candidate, key, default) ==
    IF key \in DOMAIN candidate THEN candidate[key] ELSE default

\* a candidate as rank reads it, lines 128-133: the keys a stage that did not
\* run left out take their defaults
RankCandidate(candidate) ==
    [signifier_id |-> candidate.signifier_id,
     intent_similarity |-> candidate.intent_similarity,
     shacl_conforms |-> CandidateGet(candidate, "shacl_conforms", TRUE),
     shacl_has_shapes |-> CandidateGet(candidate, "shacl_has_shapes", FALSE),
     has_sse_pass |-> CandidateGet(candidate, "has_sse_pass",
                                   "sse_pass" \in DOMAIN candidate),
     sse_pass |-> CandidateGet(candidate, "sse_pass", TRUE),
     constraint_count |-> CandidateGet(candidate, "constraint_count", 0)]

\* _execute_ranking: Ranker(weights=request.ranking_weights) when the request
\* has weights, else the ranker the orchestrator was built with
ExecuteRanking(self_ranker, req, cands) ==
    Rank(IF DOMAIN req.ranking_weights # {}
         THEN NewRanker(req.ranking_weights, TRUE, FALSE)
         ELSE self_ranker,
         [i \in 1..Len(cands) |-> RankCandidate(cands[i])])

ModuleResult(module_name, cands) == [module_name |-> module_name, candidates |-> cands]

\* request.pipeline or self.default_pipeline, and "module in pipeline"
PipelineOf(req) == IF req.pipeline = <<>> THEN DefaultPipeline ELSE req.pipeline
InPipeline(req, module) ==
    \E i \in 1..Len(PipelineOf(req)) : PipelineOf(req)[i] = module

\* a RetrievalResponse, and the exception that leaves retrieve together with
\* the module results gathered when it was raised
RetrievalResponse(results, module_results) ==
    [results |-> results, module_results |-> module_results]
RetrieveRaised(module_results) ==
    [raised |-> "ValueError", module_results |-> module_results]

\* retrieve from the end of the IM module on, im being what that module
\* returned or raised: each module runs when the pipeline names it and there
\* are candidates for it
RetrieveAfterIm(req, im, self_ranker) ==
    IF im = ValueError THEN RetrieveRaised(<<>>)
    ELSE
        LET c1 == im.results
            m1 == IF InPipeline(req, "IM") THEN <<ModuleResult("IM", c1)>> ELSE <<>>
            runs_sse == InPipeline(req, "SSE") /\ c1 # <<>> /\ req.enable_sse
            c2 == IF runs_sse THEN ExecuteSse(req, c1) ELSE c1
            m2 == IF runs_sse THEN Append(m1, ModuleResult("SSE", c2)) ELSE m1
            runs_sv == InPipeline(req, "SV") /\ c2 # <<>>
            sv == IF runs_sv THEN ExecuteShaclValidation(req, c2) ELSE Returned(c2)
        IN  IF sv = ValueError THEN RetrieveRaised(m2)
            ELSE
            LET c3 == sv.results
                m3 == IF runs_sv THEN Append(m2, ModuleResult("SV", c3)) ELSE m2
            IN  IF InPipeline(req, "RP") /\ c3 # <<>>
                THEN RetrievalResponse(ExecuteRanking(self_ranker, req, c3),
                         Append(m3, ModuleResult("RP",
                                        ExecuteRanking(self_ranker, req, c3))))
                ELSE RetrievalResponse(<<>>, m3)

\* retrieve(request), the registry's files listed in the order all_ids
RetrieveOutcome(d, all_ids, req, self_ranker) ==
    RetrieveAfterIm(req,
                    IF InPipeline(req, "IM") THEN ExecuteIntentMatching(d, all_ids, req)
                    ELSE Returned(<<>>),
                    self_ranker)

\* one call of retrieve
Retrieve(req, all_ids) ==
    /\ nops < MaxOps
    /\ nops' = nops + 1
    /\ request' = req
    /\ response' = RetrieveOutcome(docs, all_ids, req, ranker)
    /\ UNCHANGED <<universe, docs, rdf, index, last, failed, pc, obs,
                   ranker, candidates, ranked, matchArgs, matched, matcherVars, sseVars>>

\* the orchestrator built with its defaults: ranker = Ranker()
InitRetrieve ==
    /\ universe = {IdA, IdB} /\ InitStores
    /\ InitMatcherIdle /\ InitSseIdle
    /\ request = NoRequest /\ response = NoResponse
    /\ ranker = NewRanker(<<>>, TRUE, FALSE)
    /\ candidates = <<>> /\ ranked = NotRanked
    /\ matchArgs = NoArgs /\ matched = NotMatched

\* Registry calls, then one retrieve: retrieve reads the registry, writes nothing
\* to it and keeps nothing from one call to the next, so a call after a
\* retrieve leads to no new case.
NextRetrieve ==
    \/ /\ response = NoResponse
       /\ \E s \in SignifierInputs(universe) :
             \E rdf_data \in RdfDataFor(s) : Create(s, rdf_data)
    \/ /\ response = NoResponse
       /\ \E id \in universe, st \in Statuses : UpdateStatus(id, st)
    \/ /\ response = NoResponse
       /\ \E id \in universe : Delete(id)
    \/ /\ response = NoResponse
       /\ \E req \in RetrievalRequests :
             \E all_ids \in ListAllSignifiers(docs) : Retrieve(req, all_ids)

SpecRetrieve == InitRetrieve /\ [][NextRetrieve]_vars

\* ------------------------------- EmbeddingMatcher (v1), IntentMatcherRegistry
\* number of calls of IntentMatcherRegistry.match in one run
MaxMatchCalls == 3

NoModel == [none |-> "model"]
SentenceTransformer == [model_name |-> "all-MiniLM-L6-v2"]
ImportError == [raised |-> "ImportError"]
\* the ValueError of get_matcher and set_default_version for a version that is
\* not registered
UnknownVersion == [raised |-> "ValueError", message |-> "not registered"]

\* model.encode stands for the network: a fixed function from texts to unit
\* vectors, here vectors of length 5 in the plane picked by the words of the text
UnitVectors ==
    << <<5, 0>>, <<4, 3>>, <<3, 4>>, <<0, 5>>, <<-3, 4>>, <<-4, 3>>, <<-5, 0>>,
       <<0, -5>> >>
WordCode(w) ==
    CASE w = "turn" -> 0 [] w = "on" -> 1 [] w = "Lamp" -> 3 [] w = "unknown" -> 7
      [] OTHER -> 0
RECURSIVE TextCode(_)
TextCode(text) == IF text = <<>> THEN 0 ELSE WordCode(Head(text)) + TextCode(Tail(text))
Encode(text) == UnitVectors[1 + (TextCode(text) % Len(UnitVectors))]

\* np.linalg.norm of a vector with integer components whose length is an integer
Norm(vec) ==
    LET sq == vec[1] * vec[1] + vec[2] * vec[2]
    IN  CHOOSE n \in 0..sq : n * n = sq

\* _cosine_similarity: (cosine + 1) / 2 clipped to [0, 1], 0.0 for a zero vector
CosineSimilarity(vec1, vec2) ==
    LET dot_product == vec1[1] * vec2[1] + vec1[2] * vec2[2]
        norm1 == Norm(vec1)
        norm2 == Norm(vec2)
        normalized_sim == Rat(dot_product + norm1 * norm2, 2 * norm1 * norm2)
    IN  IF norm1 = 0 \/ norm2 = 0 THEN RatZero
        ELSE IF RatLess(normalized_sim, RatZero) THEN RatZero
        ELSE RatMin(RatOne, normalized_sim)

\* structured.get("intent", ""), structured being a dictionary
StructuredIntent(structured) ==
    IF "intent" \in DOMAIN structured THEN structured.intent ELSE <<>>

\* _extract_signifier_text: nl_text and structured["intent"] joined
ExtractSignifierText(signifier) ==
    LET combined_text == signifier.intent.nl_text
                             \o StructuredIntent(signifier.intent.structured)
    IN  IF combined_text # <<>> THEN combined_text ELSE <<"unknown", "intent">>

\* _compute_cache_key: the digest of f"{signifier_id}:{text}", two contents
\* having different digests
ComputeCacheKey(signifier_id, text) == signifier_id \o <<":">> \o text

\* EmbeddingMatcher(): the model is loaded on the first match, not here
NewEmbeddingMatcher ==
    [version |-> "v1", cache_embeddings |-> TRUE, model |-> NoModel,
     embedding_cache |-> <<>>]
NewStringContainsMatcher == [version |-> "v0"]

\* _get_model: the matcher after the call and the model, or the ImportError
\* raised when sentence_transformers cannot be imported
GetModel(matcher, can_load) ==
    IF matcher.model # NoModel THEN [matcher |-> matcher, model |-> matcher.model]
    ELSE IF can_load
         THEN [matcher |-> [matcher EXCEPT !.model = SentenceTransformer],
               model |-> SentenceTransformer]
         ELSE [matcher |-> matcher, model |-> ImportError]

\* _get_signifier_embedding: the embedding returned and the cache after the call
GetSignifierEmbedding(matcher, signifier) ==
    LET cache_key == ComputeCacheKey(signifier.signifier_id, signifier.intent.nl_text)
        cache == matcher.embedding_cache
    IN  IF matcher.cache_embeddings /\ cache_key \in DOMAIN cache
        THEN [embedding |-> cache[cache_key], matcher |-> matcher]
        ELSE LET embedding == Encode(ExtractSignifierText(signifier))
             IN  [embedding |-> embedding,
                  matcher |-> IF matcher.cache_embeddings
                              THEN [matcher EXCEPT !.embedding_cache =
                                       [key \in DOMAIN cache \cup {cache_key} |->
                                           IF key = cache_key THEN embedding
                                           ELSE cache[key]]]
                              ELSE matcher]

\* the loop of EmbeddingMatcher.match over the signifiers: the embeddings used,
\* one per signifier, and the matcher after the loop
RECURSIVE SignifierEmbeddings(_, _)
SignifierEmbeddings(matcher, signifiers) ==
    IF signifiers = <<>> THEN [embeddings |-> <<>>, matcher |-> matcher]
    ELSE LET first == GetSignifierEmbedding(matcher, Head(signifiers))
             rest == SignifierEmbeddings(first.matcher, Tail(signifiers))
         IN  [embeddings |-> <<first.embedding>> \o rest.embeddings,
              matcher |-> rest.matcher]

\* EmbeddingMatcher.match with min_similarity = 0.0: what it returns or raises,
\* the embeddings it used and the matcher after the call
EmbeddingMatch(matcher, intent_query, signifiers, k, can_load) ==
    IF intent_query = <<>> THEN [outcome |-> ValueError, matcher |-> matcher]
    ELSE IF signifiers = <<>> THEN [outcome |-> Returned(<<>>), matcher |-> matcher]
    ELSE
        LET loaded == GetModel(matcher, can_load)
        IN  IF loaded.model = ImportError
            THEN [outcome |-> ImportError, matcher |-> matcher]
            ELSE
                LET query_embedding == Encode(intent_query)
                    used == SignifierEmbeddings(loaded.matcher, signifiers)
                    scored == [i \in 1..Len(signifiers) |->
                        [signifier_id |-> signifiers[i].signifier_id,
                         similarity |-> CosineSimilarity(query_embedding,
                                                         used.embeddings[i])]]
                    results == SelectSeq(scored,
                                   LAMBDA r : ~RatLess(r.similarity, RatZero))
                IN  [outcome |->
                         [results |-> SliceTo(SortedDescending(results,
                              [i \in 1..Len(results) |-> results[i].similarity]), k),
                          embeddings |-> used.embeddings],
                     matcher |-> used.matcher]

\* IntentMatcherRegistry.register
Register(matchers, matcher) ==
    [v \in DOMAIN matchers \cup {matcher.version} |->
        IF v = matcher.version THEN matcher ELSE matchers[v]]

\* _initialize_default_matchers: EmbeddingMatcher() raises nothing, so the
\* ImportError branch registers nothing less
InitializeDefaultMatchers ==
    Register(Register(<<>>, NewStringContainsMatcher), NewEmbeddingMatcher)

\* IntentMatcherRegistry(default_version)
NewMatcherRegistry(default_version) ==
    [default_version |-> default_version, matchers |-> InitializeDefaultMatchers]

NoVersion == "None"
\* get_matcher: the version looked up, UnknownVersion when it is not registered
GetMatcher(registry, version) ==
    LET version_to_use == IF version = NoVersion THEN registry.default_version
                          ELSE version
    IN  IF version_to_use \notin DOMAIN registry.matchers THEN UnknownVersion
        ELSE registry.matchers[version_to_use]

\* str() of the structured dictionary, as the words v0 finds in it
StructuredStr(structured) ==
    IF "intent" \in DOMAIN structured THEN <<"intent">> \o structured.intent
    ELSE <<>>
WithStructuredStr(signifier) ==
    [signifier EXCEPT !.intent.structured = StructuredStr(signifier.intent.structured)]

\* IntentMatcherRegistry.match: the outcome and the registry after the call
RegistryMatch(registry, intent_query, signifiers, k, version, can_load) ==
    LET matcher == GetMatcher(registry, version)
    IN  IF matcher = UnknownVersion
        THEN [outcome |-> UnknownVersion, registry |-> registry]
        ELSE IF matcher.version = "v1"
        THEN LET done == EmbeddingMatch(matcher, intent_query, signifiers, k, can_load)
             IN  [outcome |-> done.outcome,
                  registry |-> [registry EXCEPT !.matchers["v1"] = done.matcher]]
        ELSE [outcome |-> Match(intent_query,
                                [i \in 1..Len(signifiers) |->
                                    WithStructuredStr(signifiers[i])],
                                k, FALSE),
              registry |-> registry]

\* the signifier dictionaries given to the registry: "s1" and "s2" with an
\* nl_text and a structured intent that is absent or has an "intent" entry
NlTexts == {<<"turn">>, <<"Lamp">>}
Structureds == {<<>>, [intent |-> <<"on">>], [intent |-> <<"Lamp">>]}
EmbeddingSignifierLists ==
    {<<>>}
      \cup {<<SignifierDict(<<"s", "1">>, t, s)>> : t \in NlTexts, s \in Structureds}
      \cup {<<SignifierDict(<<"s", "1">>, t, s), SignifierDict(<<"s", "2">>, <<"turn">>, <<>>)>> :
              t \in NlTexts, s \in Structureds}
MatcherVersions == {NoVersion, "v0", "v1", "v2"}

\* the registry on its own (default v0) or as the orchestrator builds it
\* (default v1), with sentence_transformers installed or not
InitMatcherRegistry ==
    /\ universe = {IdA} /\ InitStores
    /\ request = NoRequest /\ response = NoResponse
    /\ ranker = NoRanker /\ candidates = <<>> /\ ranked = NotRanked
    /\ matchArgs = NoArgs /\ matched = NotMatched
    /\ sentenceTransformers \in BOOLEAN
    /\ matcherRegistry \in {NewMatcherRegistry(v) : v \in {"v0", "v1"}}
    /\ registryCall = NoCall
    /\ registryOutcome = NoOutcome
    /\ matchCalls = 0
    /\ InitSseIdle

\* one call of IntentMatcherRegistry.match
RegistryMatchCall(intent_query, signifiers, k, version) ==
    /\ matchCalls < MaxMatchCalls
    /\ matchCalls' = matchCalls + 1
    /\ LET done == RegistryMatch(matcherRegistry, intent_query, signifiers, k,
                                 version, sentenceTransformers)
       IN  /\ registryOutcome' = done.outcome
           /\ matcherRegistry' = done.registry
    /\ registryCall' = [op |-> "match", intent_query |-> intent_query,
                        signifiers |-> signifiers, k |-> k, version |-> version]
    /\ UNCHANGED <<universe, docs, rdf, index, last, failed, nops, pc, obs,
                   request, response, ranker, candidates, ranked, matchArgs, matched,
                   sentenceTransformers, sseVars>>

\* one call of IntentMatcherRegistry.set_default_version
SetDefaultVersion(version) ==
    /\ matchCalls < MaxMatchCalls
    /\ matchCalls' = matchCalls + 1
    /\ IF version \notin DOMAIN matcherRegistry.matchers
       THEN registryOutcome' = UnknownVersion /\ UNCHANGED matcherRegistry
       ELSE /\ registryOutcome' = Returned(<<>>)
            /\ matcherRegistry' = [matcherRegistry EXCEPT !.default_version = version]
    /\ registryCall' = [op |-> "set_default_version", version |-> version]
    /\ UNCHANGED <<universe, docs, rdf, index, last, failed, nops, pc, obs,
                   request, response, ranker, candidates, ranked, matchArgs, matched,
                   sentenceTransformers, sseVars>>

\* one call of EmbeddingMatcher.clear_cache on the registered v1 matcher
ClearCache ==
    /\ matchCalls < MaxMatchCalls
    /\ matchCalls' = matchCalls + 1
    /\ "v1" \in DOMAIN matcherRegistry.matchers
    /\ matcherRegistry' = [matcherRegistry EXCEPT !.matchers["v1"].embedding_cache = <<>>]
    /\ registryOutcome' = Returned(<<>>)
    /\ registryCall' = [op |-> "clear_cache"]
    /\ UNCHANGED <<universe, docs, rdf, index, last, failed, nops, pc, obs,
                   request, response, ranker, candidates, ranked, matchArgs, matched,
                   sentenceTransformers, sseVars>>

NextMatcherRegistry ==
    \/ \E sl \in EmbeddingSignifierLists, v \in MatcherVersions :
          RegistryMatchCall(<<"turn">>, sl, MaxK, v)
    \/ \E v \in {"v0", "v1", "v2"} : SetDefaultVersion(v)
    \/ ClearCache

SpecMatcherRegistry == InitMatcherRegistry /\ [][NextMatcherRegistry]_vars

\* ------------------------------------ retrieve with any pipeline and ranker
\* the pipelines a request names: every subset of the four modules
Pipelines ==
    {SelectSeq(DefaultPipeline, LAMBDA m : m \in S) : S \in SUBSET Range(DefaultPipeline)}

\* ranking_weights of a request: none, or the intent similarity alone
RequestWeights == {<<>>, [intent_similarity |-> 10, shacl |-> 0, sse |-> 0]}

PipelineRequests ==
    { RetrievalRequest(<<"turn">>, c, p, MaxK, w, TRUE) :
        c \in ContextInputs, p \in Pipelines, w \in RequestWeights }

\* the orchestrator built with Ranker() or with a ranker whose SSE gate is on
InitPipelines ==
    /\ universe = {IdA, IdB} /\ InitStores
    /\ InitMatcherIdle /\ InitSseIdle
    /\ request = NoRequest /\ response = NoResponse
    /\ ranker \in {NewRanker(<<>>, TRUE, FALSE), NewRanker(<<>>, TRUE, TRUE)}
    /\ candidates = <<>> /\ ranked = NotRanked
    /\ matchArgs = NoArgs /\ matched = NotMatched

\* signifiers are created, then one retrieve
NextPipelines ==
    \/ /\ response = NoResponse
       /\ \E s \in SignifierInputs(universe) : Create(s, NoRdf)
    \/ /\ response = NoResponse
       /\ \E req \in PipelineRequests :
             \E all_ids \in ListAllSignifiers(docs) : Retrieve(req, all_ids)

SpecPipelines == InitPipelines /\ [][NextPipelines]_vars

\* ------------------------------------------------------------------------ SSE
MissingValuePolicies == {"fail", "ignore", "pass"}

\* the (artifact, property) pairs of the conditions and contexts given to
\* evaluate: two properties of one artifact and one of another
K3 == <<"art2", "p1">>
SseKeys == Keys \cup {K3}

\* the contexts {artifact_uri: {property_uri: value}} over these pairs
SseContexts ==
    UNION {{KvDict(f) : f \in [S -> {"satisfies", "violates"}]} : S \in SUBSET SseKeys}

InitSse ==
    /\ universe = {IdA} /\ InitStores
    /\ InitMatcherIdle
    /\ request = NoRequest /\ response = NoResponse
    /\ ranker = NoRanker /\ candidates = <<>> /\ ranked = NotRanked
    /\ matchArgs = NoArgs /\ matched = NotMatched
    /\ sseCall \in [missing_value_policy : MissingValuePolicies,
                    structured_conditions : SUBSET SseKeys,
                    context_features : SseContexts]
    /\ sseResult = NoResult

\* one call of SSE(missing_value_policy).evaluate on the arguments drawn
EvaluateCall ==
    /\ sseResult = NoResult
    /\ sseResult' = Evaluate(sseCall.missing_value_policy,
                             sseCall.structured_conditions, sseCall.context_features)
    /\ UNCHANGED <<universe, docs, rdf, index, last, failed, nops, pc, obs,
                   request, response, ranker, candidates, ranked, matchArgs, matched,
                   matcherVars, sseCall>>

NextSse == EvaluateCall

SpecSse == InitSse /\ [][NextSse]_vars

\* --------------------------------- retrieve running next to registry writes
\* A retrieve reads the registry twice: _execute_intent_matching lists and
\* matches the signifiers, then calls get() for each match.  Calls of other
\* threads on the registry run between the two and before the later modules.
Matching(all_signifiers) == [at |-> "matched", all_signifiers |-> all_signifiers]
Scoring(all_signifiers) == [at |-> "scoring", all_signifiers |-> all_signifiers]
Done(all_signifiers) == [at |-> "done", all_signifiers |-> all_signifiers]

ConcurrentRequests ==
    { RetrievalRequest(<<"turn">>, c, DefaultPipeline, MaxK, <<>>, TRUE) :
        c \in ContextInputs }

\* retrieve up to the match: list_signifiers, model_dump and the matcher
BeginRetrieve(req, all_ids) ==
    /\ nops < MaxOps
    /\ pc = Idle
    /\ nops' = nops + 1
    /\ request' = req
    /\ matchArgs' = MatchArgs(req.intent_query,
                              SignifierDicts(ListSignifiers(docs, all_ids, NoStatus)),
                              req.k, FALSE)
    /\ matched' = MatchResults(docs, all_ids, req)
    /\ pc' = Matching(ListSignifiers(docs, all_ids, NoStatus))
    /\ UNCHANGED <<universe, docs, rdf, index, last, failed, obs,
                   response, ranker, candidates, ranked, matcherVars, sseVars>>

\* the loop of get() calls over the matches
GetCandidates ==
    /\ pc.at = "matched"
    /\ candidates' = ImCandidates(docs, matched.results)
    /\ pc' = Scoring(pc.all_signifiers)
    /\ UNCHANGED <<universe, docs, rdf, index, last, failed, nops, obs,
                   request, response, ranker, ranked, matchArgs, matched,
                   matcherVars, sseVars>>

\* the SSE, SV and RP modules and the response
FinishRetrieve ==
    /\ pc.at = "scoring"
    /\ response' = RetrieveAfterIm(request, Returned(candidates), ranker)
    /\ pc' = Done(pc.all_signifiers)
    /\ UNCHANGED <<universe, docs, rdf, index, last, failed, nops, obs,
                   request, ranker, candidates, ranked, matchArgs, matched,
                   matcherVars, sseVars>>

InitRetrieveConc == InitRetrieve

NextRetrieveConc ==
    \/ \E s \in SignifierInputs(universe) :
          \E rdf_data \in RdfDataFor(s) : Create(s, rdf_data)
    \/ \E s \in SignifierInputs(universe), create_new_version \in BOOLEAN :
          Update(s, create_new_version)
    \/ \E id \in universe : Delete(id)
    \/ \E req \in ConcurrentRequests :
          \E all_ids \in ListAllSignifiers(docs) : BeginRetrieve(req, all_ids)
    \/ GetCandidates
    \/ FinishRetrieve

SpecRetrieveConc == InitRetrieveConc /\ [][NextRetrieveConc]_vars

\* ==================================================================== claims
Called(op) == last.op = op
CalledId == last.signifier_id

\* the id is listed under key k of the index
Indexed(idx, k, id) == id \in StoreFindByProperty(idx, k)

\* the versions for which the id has an RDF file
RdfVersions(r, id) == {v \in 1..(MaxVersion + 1) : RdfPath(id, v) \in DOMAIN r}

\* C1: every id listed under an (artifact, property) key of the index has a
\* document whose structured conditions contain that pair; an update that drops
\* a pair takes the id out of that pair's entry.
C1_IndexSound ==
    \A k \in DOMAIN index : \A id \in index[k] :
        /\ docs[id] # NoDoc
        /\ k \in docs[id].context.structured_conditions

\* C3: a create or create_from_rdf call that fails leaves the document store,
\* the RDF store and the index exactly as they were.
C3_FailedCreateNoEffect ==
    [][ (last'.op \in {"create", "create_from_rdf"} /\ last'.res # "ok")
            => UNCHANGED stores ]_vars

\* C4: as long as every call so far succeeded, every id with a document has an
\* RDF graph for the document's version: get_rdf_representation(id) finds it.
C4_RdfForEveryDocument ==
    ~failed => \A id \in Ids :
        docs[id] # NoDoc => GetRdfRepresentation(docs, rdf, id) # NoGraph

\* C5: create for an id that has a document ends with AlreadyExists and the
\* documents, the RDF graphs and the index are what they were.
C5_CreateExistingNoEffect ==
    [][ (last'.op = "create" /\ docs[last'.signifier_id] # NoDoc)
            => (last'.res = "AlreadyExists" /\ UNCHANGED stores) ]_vars

\* a create was refused for an id whose document is still there
C5_Witness ==
    /\ Called("create") /\ last.res = "AlreadyExists"
    /\ docs[CalledId] # NoDoc /\ docs[CalledId] = last.before

\* C6: update and update_status never lower the version of the current document.
C6_VersionNeverDecreases ==
    (last.op \in {"update", "update_status"} /\ last.before # NoDoc
        /\ docs[CalledId] # NoDoc)
        => docs[CalledId].version >= last.before.version

\* C7: update and update_status leave the RDF graph stored for every version
\* below the current one as it was.
C7_OlderVersionsImmutable ==
    [][ \A m \in 1..MaxVersion :
          (/\ last'.op \in {"update", "update_status"}
           /\ docs[last'.signifier_id] # NoDoc
           /\ m < docs[last'.signifier_id].version
           /\ GetRdfGraph(rdf, last'.signifier_id, m) # NoGraph)
            => GetRdfGraph(rdf', last'.signifier_id, m)
                   = GetRdfGraph(rdf, last'.signifier_id, m) ]_vars

\* C8: update with create_new_version on an existing id stores the previous
\* current version plus one, whatever version the passed signifier carries.
C8_NewVersionIsPreviousPlusOne ==
    (Called("update") /\ last.create_new_version /\ last.before # NoDoc)
        => /\ docs[CalledId] # NoDoc
           /\ docs[CalledId].version = last.before.version + 1

\* an update with create_new_version went through for a signifier that carried
\* a version other than the one stored
C8_Witness ==
    /\ Called("update") /\ last.create_new_version /\ last.res = "ok"
    /\ last.before # NoDoc
    /\ last.version # last.before.version + 1
    /\ docs[CalledId].version = last.before.version + 1

\* C9: update_status on an existing id changes the status of the current
\* document and nothing else: version, intent, context and affordance stay, the
\* other documents stay, the id is listed under the same index keys, and no
\* RDF file appears for a version other than the current one.
C9_UpdateStatusChangesOnlyStatus ==
    [][ (last'.op = "update_status" /\ docs[last'.signifier_id] # NoDoc)
            => LET id == last'.signifier_id
               IN  /\ docs'[id] # NoDoc
                   /\ [docs'[id] EXCEPT !.status = docs[id].status] = docs[id]
                   /\ \A o \in Ids \ {id} : docs'[o] = docs[o]
                   /\ \A k \in Keys : Indexed(index', k, id) <=> Indexed(index, k, id)
                   /\ DOMAIN rdf' \subseteq
                          DOMAIN rdf \cup {RdfPath(id, docs[id].version)} ]_vars

\* update_status turned a deprecated signifier active again
C9_Witness ==
    /\ Called("update_status") /\ last.res = "ok"
    /\ last.before # NoDoc /\ last.before.status = "deprecated"
    /\ docs[CalledId].status = "active"

\* C10: after delete(id) the id has no document, no RDF file of any version,
\* is listed under no index key, and no index entry is empty.
C10_DeleteRemovesEverything ==
    Called("delete")
        => /\ Get(docs, CalledId) = NoDoc
           /\ RdfVersions(rdf, CalledId) = {}
           /\ \A k \in DOMAIN index : CalledId \notin index[k] /\ index[k] # {}

\* C2: what a reader sees while a create, update or delete is under way is
\* consistent: a document it gets that has a condition on a pair is among the
\* signifiers find_by_property returns for the pair, and every signifier
\* find_by_property returns has a document with a condition on the pair.
C2_ReaderSeesConsistentIndex ==
    obs # NoObs =>
        /\ (obs.doc # NoDoc /\ obs.key \in obs.doc.structured_conditions)
               => obs.signifier_id \in obs.found
        /\ obs.signifier_id \in obs.found
               => (obs.doc # NoDoc /\ obs.key \in obs.doc.structured_conditions)

\* C11: delete(id) leaves every other signifier as it was: its document, the
\* RDF graph of each of its versions and its membership in every index entry;
\* an index entry goes away only when the deleted id was its sole member.
C11_DeleteLeavesOthersUntouched ==
    [][ last'.op = "delete"
            => LET id == last'.signifier_id
               IN  /\ \A o \in Ids \ {id} :
                        /\ docs'[o] = docs[o]
                        /\ \A v \in 1..(MaxVersion + 1) :
                               GetRdfGraph(rdf', o, v) = GetRdfGraph(rdf, o, v)
                        /\ \A k \in Keys : Indexed(index', k, o) <=> Indexed(index, k, o)
                   /\ \A k \in DOMAIN index \ DOMAIN index' : index[k] = {id} ]_vars

\* the query tokens and the signifier of a result of the last match call
QueryTokens == Tokenize(matchArgs.intent_query, matchArgs.case_sensitive)
MatchedSignifier(r) ==
    CHOOSE s \in Range(matchArgs.signifiers) : s.signifier_id = r.signifier_id

\* C20: match returns at most k results, sorted by similarity descending; the
\* similarity of each is the number of query tokens, repeats counted, found in the
\* signifier's token set, over the number of query tokens; no result has
\* similarity 0.
C20_MatchTopKBySimilarity ==
    HasReturned(matched) =>
        /\ Len(matched.results) <= matchArgs.k
        /\ \A i \in 1..(Len(matched.results) - 1) :
              ~RatLess(matched.results[i].similarity, matched.results[i + 1].similarity)
        /\ \A i \in 1..Len(matched.results) :
              LET tokens == SignifierTokens(MatchedSignifier(matched.results[i]),
                                            matchArgs.case_sensitive)
                  hits == Len(SelectSeq(QueryTokens, LAMBDA t : t \in tokens))
              IN  /\ matched.results[i].similarity.num * Len(QueryTokens)
                         = hits * matched.results[i].similarity.den
                  /\ matched.results[i].similarity.num > 0

\* k cut the list short, and a query with a repeated token matched a signifier
\* in part
C20_Witness ==
    /\ HasReturned(matched)
    /\ Len(matched.results) = matchArgs.k /\ matchArgs.k < Len(matchArgs.signifiers)
    /\ \E i \in 1..Len(matched.results) :
          /\ RatLess(matched.results[i].similarity, RatOne)
          /\ \E a, b \in 1..Len(QueryTokens) : a # b /\ QueryTokens[a] = QueryTokens[b]
                /\ QueryTokens[a] \in Range(matched.results[i].matched_tokens)

\* the result rank returned for a candidate
ResultOf(c) ==
    ranked.results[CHOOSE i \in 1..Len(ranked.results) :
                       ranked.results[i].signifier_id = c.signifier_id]

\* an enabled gate fails for the candidate
FailsEnabledGate(rk, c) ==
    \/ rk.enable_shacl_gate /\ c.shacl_has_shapes /\ ~c.shacl_conforms
    \/ rk.enable_sse_gate /\ c.has_sse_pass /\ ~c.sse_pass

\* C15: a candidate that fails an enabled gate (SHACL gate on, shapes present,
\* shacl_conforms false; or SSE gate on, sse_pass false) gets final_score 0 and
\* passed_gates false, whatever its similarity, the weights and its
\* constraint_count.
C15_FailedGateScoresZero ==
    HasReturned(ranked) =>
        \A i \in 1..Len(candidates) :
            FailsEnabledGate(ranker, candidates[i])
                => /\ RatEq(ResultOf(candidates[i]).final_score, RatZero)
                   /\ ~ResultOf(candidates[i]).passed_gates

\* a candidate with similarity 1 and constraints failed the SHACL gate and
\* scored 0, next to one that passed with a positive score
C15_Witness ==
    /\ HasReturned(ranked)
    /\ \E i, j \in 1..Len(candidates) :
          /\ candidates[i].intent_similarity = RatOne
          /\ candidates[i].constraint_count > 0
          /\ ranker.enable_shacl_gate /\ ~candidates[i].shacl_conforms
          /\ RatEq(ResultOf(candidates[i]).final_score, RatZero)
          /\ ~FailsEnabledGate(ranker, candidates[j])
          /\ RatLess(RatZero, ResultOf(candidates[j]).final_score)

\* the characters of the ids, in code point order
Alphabet ==
    <<"0", "1", "2", "3", "4", "5", "6", "7", "8", "9", "[", "]", "_", "a", "b",
      "s", "v">>
CodePoint(ch) == CHOOSE i \in 1..Len(Alphabet) : Alphabet[i] = ch

\* x < y for two strings, as Python compares them
RECURSIVE LexLess(_, _)
LexLess(x, y) ==
    IF y = <<>> THEN FALSE
    ELSE IF x = <<>> THEN TRUE
    ELSE IF Head(x) = Head(y) THEN LexLess(Tail(x), Tail(y))
    ELSE CodePoint(Head(x)) < CodePoint(Head(y))

\* C16: the list rank returns is descending by final_score, and results with
\* equal final_score are in ascending lexicographic order of signifier_id,
\* whatever the order of the candidates passed in.
C16_SortedByScoreThenId ==
    HasReturned(ranked) =>
        \A i \in 1..(Len(ranked.results) - 1) :
            LET r == ranked.results[i]
                n == ranked.results[i + 1]
            IN  /\ ~RatLess(r.final_score, n.final_score)
                /\ RatEq(r.final_score, n.final_score)
                       => LexLess(r.signifier_id, n.signifier_id)

\* C17: of two candidates that pass the gates and agree on intent_similarity and
\* on the SHACL and SSE signals, the one with the larger constraint_count comes
\* strictly first in the ranked list.
C17_MoreConstraintsRanksFirst ==
    HasReturned(ranked) =>
        \A i, j \in 1..Len(candidates) :
            LET c == candidates[i]
                d == candidates[j]
            IN  (/\ PassedGates(ranker, c) /\ PassedGates(ranker, d)
                 /\ c.intent_similarity = d.intent_similarity
                 /\ c.shacl_has_shapes = d.shacl_has_shapes
                 /\ c.shacl_conforms = d.shacl_conforms
                 /\ c.has_sse_pass = d.has_sse_pass
                 /\ c.sse_pass = d.sse_pass
                 /\ c.constraint_count > d.constraint_count)
                    => /\ ranked.results[1].signifier_id = c.signifier_id
                       /\ RatLess(ResultOf(d).final_score, ResultOf(c).final_score)

\* the weight sum and the weighted sum of a candidate's signals that are not
\* gates, read off the candidate
NonGateWeights(rk, c) ==
    WeightGet(rk.weights, "intent_similarity", DefaultIntentWeight)
    + (IF c.shacl_has_shapes /\ ~rk.enable_shacl_gate
       THEN WeightGet(rk.weights, "shacl", DefaultShaclWeight) ELSE 0)
    + (IF c.has_sse_pass /\ ~rk.enable_sse_gate
       THEN WeightGet(rk.weights, "sse", DefaultSseWeight) ELSE 0)

NonGateWeightedSum(rk, c) ==
    RatAdd(Rat(c.intent_similarity.num
                   * WeightGet(rk.weights, "intent_similarity", DefaultIntentWeight),
               c.intent_similarity.den),
           Rat((IF c.shacl_has_shapes /\ ~rk.enable_shacl_gate /\ c.shacl_conforms
                THEN WeightGet(rk.weights, "shacl", DefaultShaclWeight) ELSE 0)
               + (IF c.has_sse_pass /\ ~rk.enable_sse_gate /\ c.sse_pass
                  THEN WeightGet(rk.weights, "sse", DefaultSseWeight) ELSE 0), 1))

\* C18: for a candidate that passes the enabled gates the score before the boost
\* is (sum of weight * value over the signals that are not gates) / (sum of those
\* weights), a boolean counting 1 or 0, and 0 when the weights sum to 0; without
\* constraints that score is the final_score.
C18_WeightedScoreOverNonGateSignals ==
    HasReturned(ranked) =>
        \A i \in 1..Len(candidates) :
            LET c == candidates[i]
                score == CalculateWeightedScore(Signals(ranker, c))
                w == NonGateWeights(ranker, c)
                expected ==
                    IF w = 0 THEN RatZero
                    ELSE Rat(NonGateWeightedSum(ranker, c).num,
                             NonGateWeightedSum(ranker, c).den * w)
            IN  PassedGates(ranker, c)
                    => /\ RatEq(score, expected)
                       /\ c.constraint_count = 0
                              => RatEq(ResultOf(c).final_score, expected)

\* a candidate passed the SHACL gate, whose signal is left out of the score, and
\* failed the SSE check, which is weighted: the score lies strictly between 0
\* and 1
C18_Witness ==
    /\ HasReturned(ranked)
    /\ \E i \in 1..Len(candidates) :
          LET c == candidates[i]
          IN  /\ ranker.enable_shacl_gate /\ c.shacl_has_shapes /\ c.shacl_conforms
              /\ ~ranker.enable_sse_gate /\ c.has_sse_pass /\ ~c.sse_pass
              /\ c.constraint_count = 0
              /\ RatLess(RatZero, ResultOf(c).final_score)
              /\ RatLess(ResultOf(c).final_score, RatOne)

\* C19: every RankedResult has final_score in [0, 1], for every candidate with
\* intent_similarity in [0, 1], every constraint_count, every gate configuration
\* and every set of weights a request may supply.
C19_FinalScoreInUnitInterval ==
    HasReturned(ranked) =>
        \A i \in 1..Len(ranked.results) :
            /\ ~RatLess(ranked.results[i].final_score, RatZero)
            /\ ~RatLess(RatOne, ranked.results[i].final_score)

\* the candidates a module of the last retrieve put out (<<>> when it did not run)
ModuleCandidates(module) ==
    IF \E i \in 1..Len(response.module_results) :
           response.module_results[i].module_name = module
    THEN response.module_results[
             CHOOSE i \in 1..Len(response.module_results) :
                 response.module_results[i].module_name = module].candidates
    ELSE <<>>

ModuleRan(module) ==
    \E i \in 1..Len(response.module_results) :
        response.module_results[i].module_name = module

IdsOf(cands) == [i \in 1..Len(cands) |-> cands[i].signifier_id]

\* C12: retrieve considers active signifiers only: no signifier that is
\* deprecated when retrieve runs is among the IM candidates or the ranked
\* results.
C12_OnlyActiveRetrieved ==
    response # NoResponse =>
        LET im == ModuleCandidates("IM")
        IN  /\ \A i \in 1..Len(im) : im[i].signifier.status = "active"
            /\ HasReturned(response) =>
                   \A j \in 1..Len(response.results) : \A i \in 1..Len(im) :
                       im[i].signifier_id = response.results[j].signifier_id
                           => im[i].signifier.status = "active"

\* C13: retrieve does not raise because of one candidate: a candidate whose
\* shapes text does not parse is kept in the results, marked as failing, and
\* the other candidates are ranked.
C13_RetrieveNeverRaises ==
    response # NoResponse =>
        /\ HasReturned(response)
        /\ \A i \in 1..Len(ModuleCandidates("IM")) :
              LET c == ModuleCandidates("IM")[i]
              IN  \E j \in 1..Len(response.results) :
                      /\ response.results[j].signifier_id = c.signifier_id
                      /\ c.signifier.shacl_shapes = "malformed"
                             => ~response.results[j].passed_gates

C21_TiesInIdOrder ==
    HasReturned(matched) =>
        \A i \in 1..(Len(matched.results) - 1) :
            RatEq(matched.results[i].similarity, matched.results[i + 1].similarity)
                => LexLess(matched.results[i].signifier_id,
                           matched.results[i + 1].signifier_id)


\* the last registry call was match with this version selected
MatchSelected(version) ==
    /\ "op" \in DOMAIN registryCall
    /\ registryCall.op = "match"
    /\ registryCall.version = version

\* C22: when the embedding model cannot be loaded the registry holds v0 and not
\* v1, and a match call that selects v1 fails with UnknownVersion.
C22_NoModelMeansUnknownVersion ==
    (~sentenceTransformers /\ MatchSelected("v1")) =>
        /\ "v0" \in DOMAIN matcherRegistry.matchers
        /\ "v1" \notin DOMAIN matcherRegistry.matchers
        /\ registryOutcome = UnknownVersion

\* C30: after a v1 match the embedding used for each signifier is the encoding
\* of the text extracted from the signifier as it was passed in (nl_text and
\* structured["intent"]), whatever the earlier calls were.
C30_NoStaleEmbedding ==
    (HasReturned(registryOutcome) /\ "embeddings" \in DOMAIN registryOutcome) =>
        \A i \in 1..Len(registryCall.signifiers) :
            registryOutcome.embeddings[i]
                = Encode(ExtractSignifierText(registryCall.signifiers[i]))


\* the conditions of the evaluate call whose property the context does not hold
MissingConditions ==
    {c \in sseCall.structured_conditions :
        \/ c[1] \notin DOMAIN sseCall.context_features
        \/ c[2] \notin DOMAIN sseCall.context_features[c[1]]}

\* C23: for conditions that all refer to pairs absent from the context,
\* evaluate returns sse_pass = TRUE under the policies "ignore" and "pass" and
\* FALSE under "fail"; with no conditions it returns TRUE under every policy.
C23_MissingValuePolicy ==
    sseResult # NoResult =>
        /\ (sseCall.structured_conditions = {}) => sseResult.sse_pass
        /\ (sseCall.structured_conditions # {}
                /\ MissingConditions = sseCall.structured_conditions)
              => (sseResult.sse_pass <=> sseCall.missing_value_policy # "fail")

\* evaluate ran under "fail" on conditions that are all missing from a context
\* that holds other properties, and failed
C23_Witness ==
    /\ sseResult # NoResult
    /\ sseCall.missing_value_policy = "fail"
    /\ sseCall.structured_conditions = {K1, K3}
    /\ MissingConditions = sseCall.structured_conditions
    /\ DOMAIN sseCall.context_features = {"art"}
    /\ ~sseResult.sse_pass


\* the modules the request names, and the candidates a module result holds for
\* the id given
Named(module) == \E i \in 1..Len(request.pipeline) : request.pipeline[i] = module
CandidateOf(cands, id) == cands[CHOOSE i \in 1..Len(cands) : cands[i].signifier_id = id]

\* C25: a module the pipeline of the request does not name is skipped, and each
\* module that ran put out the candidates the module that ran before it put out:
\* the same ids with the same intent_similarity, and the sse_pass the SSE module
\* gave them.
C25_DisabledStagesPassCandidatesOn ==
    response # NoResponse =>
        /\ \A module \in Range(DefaultPipeline) : ~Named(module) => ~ModuleRan(module)
        /\ \A i \in 1..(Len(response.module_results) - 1) :
              LET before == response.module_results[i].candidates
                  after == response.module_results[i + 1].candidates
              IN  /\ Range(IdsOf(after)) = Range(IdsOf(before))
                  /\ Len(after) = Len(before)
                  /\ \A id \in Range(IdsOf(before)) :
                        /\ "intent_similarity" \in DOMAIN CandidateOf(after, id)
                              => CandidateOf(after, id).intent_similarity
                                     = CandidateOf(before, id).intent_similarity
                        /\ ("sse_pass" \in DOMAIN CandidateOf(before, id)
                                /\ "sse_pass" \in DOMAIN CandidateOf(after, id))
                              => CandidateOf(after, id).sse_pass
                                     = CandidateOf(before, id).sse_pass


\* the candidates of the last retrieve whose signifier has no shacl_shapes
WithoutShapes ==
    {id \in Range(IdsOf(ModuleCandidates("IM"))) :
        CandidateOf(ModuleCandidates("IM"), id).signifier.shacl_shapes = "none"}
RankedOf(id) ==
    response.results[CHOOSE i \in 1..Len(response.results) :
                         response.results[i].signifier_id = id]

\* C26: a candidate whose signifier has no shacl_shapes leaves the SV module
\* with shacl_conforms = TRUE, shacl_has_shapes = FALSE and constraint_count = 0,
\* and the ranker gives it no SHACL signal: it fails no gate but the SSE gate.
C26_NoShapesConforms ==
    (response # NoResponse /\ ModuleRan("SV")) =>
        \A id \in WithoutShapes :
            /\ id \in Range(IdsOf(ModuleCandidates("SV")))
            /\ CandidateOf(ModuleCandidates("SV"), id).shacl_conforms
            /\ ~CandidateOf(ModuleCandidates("SV"), id).shacl_has_shapes
            /\ CandidateOf(ModuleCandidates("SV"), id).constraint_count = 0
            /\ ModuleRan("RP") =>
                  /\ \A i \in 1..Len(RankedOf(id).signals) :
                        RankedOf(id).signals[i].name # "shacl_conforms"
                  /\ ~RankedOf(id).passed_gates
                        => /\ ranker.enable_sse_gate
                           /\ DOMAIN request.ranking_weights = {}
                           /\ ~CandidateOf(ModuleCandidates("SV"), id).sse_pass

\* SV and RP ran on a context that does not conform: the candidate without
\* shapes passed the gates, the one with shapes failed the SHACL gate
C26_Witness ==
    /\ response # NoResponse /\ ModuleRan("SV") /\ ModuleRan("RP")
    /\ ~request.context_input.conforms
    /\ \E id \in WithoutShapes : RankedOf(id).passed_gates
    /\ \E id \in Range(IdsOf(ModuleCandidates("SV"))) \ WithoutShapes :
          ~RankedOf(id).passed_gates


\* the candidates the RP module of the last retrieve was given
RankedCandidates ==
    response.module_results[Len(response.module_results) - 1].candidates

\* C28: the gates of the ranker the orchestrator was built with apply to every
\* request: a candidate that fails a gate this ranker has enabled gets
\* final_score = 0, with or without ranking_weights in the request.
C28_ConfiguredGatesAlwaysApply ==
    (response # NoResponse /\ ModuleRan("RP")) =>
        \A i \in 1..Len(RankedCandidates) :
            FailsEnabledGate(ranker, RankCandidate(RankedCandidates[i]))
                => RatEq(RankedOf(RankedCandidates[i].signifier_id).final_score,
                         RatZero)


\* the features normalize_context puts in the context graph of the SV module
\* for the context of the last request
GraphFeatures == NormalizeContext(request.context_input.features)

\* C29: the SSE module finds every property value that the SV module places in
\* the context graph, whichever form the context was passed in: a candidate all
\* of whose conditions are on pairs the graph holds with a value that meets them
\* has sse_pass = TRUE.
C29_SseSeesTheContextOfSv ==
    (response # NoResponse /\ ModuleRan("SSE")) =>
        \A i \in 1..Len(ModuleCandidates("SSE")) :
            LET c == ModuleCandidates("SSE")[i]
            IN  (\A k \in c.signifier.structured_conditions :
                    k \in DOMAIN GraphFeatures /\ GraphFeatures[k] = "satisfies")
                  => c.sse_pass


\* the ids find_by_property returns for an (artifact, property) pair
FoundIds(k) == {s.signifier_id : s \in FindByProperty(docs, index, k)}

\* C27: while every create, update, update_status and delete call so far has
\* succeeded, each id with a stored document is found by find_by_property under
\* every (artifact, property) pair of the document's structured conditions.
C27_IndexComplete ==
    ~failed =>
        \A id \in Ids : Get(docs, id) # NoDoc =>
            \A k \in GetPropertyKeys(Get(docs, id)) : id \in FoundIds(k)


\* a successful update gave a document a pair it did not have, and the id is
\* found under that pair next to another id
C27_Witness ==
    /\ ~failed
    /\ last.op = "update" /\ last.res = "ok"
    /\ last.before # NoDoc
    /\ \E k \in GetPropertyKeys(Get(docs, last.signifier_id))
              \ last.before.context.structured_conditions :
          /\ last.signifier_id \in FoundIds(k)
          /\ FoundIds(k) # {last.signifier_id}


\* C24: a retrieve that runs next to registry writes, all of them successful,
\* works on the signifiers it enumerated: the signifier attached to each
\* candidate, which SSE and SV evaluate, is one of the signifiers that were
\* listed and scored by IM, with the same version and content.
C24_QuerySeesOneSnapshot ==
    (pc.at = "done" /\ ~failed) =>
        \A i \in 1..Len(ModuleCandidates("IM")) :
            ModuleCandidates("IM")[i].signifier \in Range(pc.all_signifiers)
====
